---- MODULE Spec2Model ----
(***************************************************************************)
(* Whole-program constant propagation state of Redex                       *)
(* (ConstantPropagationWholeProgramState.cpp): the construction of a       *)
(* WholeProgramState from a scope and the per-method intraprocedural       *)
(* results, the later collect_static_finals / collect_instance_finals      *)
(* calls, and the WholeProgramAwareAnalyzer hooks that consume the state.  *)
(* A second part models AppModuleUsagePass (AppModuleUsage.cpp): the       *)
(* direct and reflective analyses and the three reports of run_pass.       *)
(***************************************************************************)
EXTENDS Integers, Sequences, FiniteSets, TLC

VARIABLES
  prog,               \* the inputs of the constructor: scope, intraprocedural results, hints
  phase,              \* "new" | "walk" (inside walk::parallel::methods) | "built"
  wpc,                \* per method: number of its instructions the parallel walk has visited
  fields_value_tmp,   \* ConcurrentMap<const DexField*, std::vector<ConstantValue>>
  methods_value_tmp,  \* ConcurrentMap<const DexMethod*, std::vector<ConstantValue>>
  m_known_fields,
  m_known_methods,
  m_field_partition,
  m_method_partition,
  ops,                \* number of collect_*_finals calls made on the constructed state
  last,               \* the last call made on the constructed state and its outcome
  \* AppModuleUsagePass
  app,                \* the inputs of run_pass: stores, methods, annotations, config
  pc,                 \* where run_pass is: "idle" | "direct" | "reflective" |
                      \* "report" | "fields" | "usages" | "counts" | "done" | "aborted"
  dpc,                \* per method: number of its instructions the direct walk has visited
  rdone,              \* the methods whose code the reflective walk has analysed
  m_stores_use_count,
  m_stores_method_uses_map,
  m_stores_method_uses_reflectively_map,
  reported,           \* the methods generate_report has handled
  violation_count,
  files,              \* the three meta files, each a sequence of lines
  metrics             \* the metrics set on the PassManager (-1: not set)

wpsVars == <<prog, phase, wpc, fields_value_tmp, methods_value_tmp, m_known_fields,
             m_known_methods, m_field_partition, m_method_partition, ops, last>>

passVars == <<app, pc, dpc, rdone, m_stores_use_count, m_stores_method_uses_map,
              m_stores_method_uses_reflectively_map, reported, violation_count,
              files, metrics>>

vars == <<wpsVars, passVars>>

(***************************************************************************)
(* Bounds of the model.                                                    *)
(***************************************************************************)
\* literals stored or returned by the modelled programs are 1..MaxConst
MaxConst == 2
\* collect_static_finals / collect_instance_finals calls made on one constructed state
MaxOps == 2

(***************************************************************************)
(* The abstract value lattice (ConstantValue / SignedConstantDomain): a    *)
(* bottom, a top, the constants, and the sign intervals between them.      *)
(***************************************************************************)
Bottom == [k |-> "bottom", n |-> 0]
Top == [k |-> "top", n |-> 0]
Constant(c) == [k |-> "const", n |-> c]
Interval(name) == [k |-> name, n |-> 0]

Sign(c) == IF c < 0 THEN -1 ELSE IF c = 0 THEN 0 ELSE 1

\* the signs an abstract value admits
Signs(v) ==
  CASE v.k = "bottom" -> {}
    [] v.k = "const" -> {Sign(v.n)}
    [] v.k = "LTZ" -> {-1}
    [] v.k = "GTZ" -> {1}
    [] v.k = "LEZ" -> {-1, 0}
    [] v.k = "GEZ" -> {0, 1}
    [] OTHER -> {-1, 0, 1}

FromSigns(S) ==
  CASE S = {} -> Bottom
    [] S = {0} -> Constant(0)
    [] S = {-1} -> Interval("LTZ")
    [] S = {1} -> Interval("GTZ")
    [] S = {-1, 0} -> Interval("LEZ")
    [] S = {0, 1} -> Interval("GEZ")
    [] OTHER -> Top

\* join_with: the least upper bound
join(a, b) ==
  IF a.k = "bottom" THEN b
  ELSE IF b.k = "bottom" THEN a
  ELSE IF a = b THEN a
  ELSE FromSigns(Signs(a) \cup Signs(b))

\* the lattice order
leq(a, b) == join(a, b) = b

is_top(v) == v.k = "top"
is_bottom(v) == v.k = "bottom"

\* the values the modelled programs hold in a register
Literals == {Constant(c) : c \in 1..MaxConst}

(***************************************************************************)
(* Abstract environments (ConstantEnvironment / FieldEnvironment): a map   *)
(* with Top as the default binding; binding anything to Bottom makes the   *)
(* whole environment Bottom, and a Bottom environment ignores set.         *)
(***************************************************************************)
Registers == {"v0", "RESULT_REGISTER"}
BottomEnv == [r \in Registers |-> Bottom]
TopEnv == [r \in Registers |-> Top]
EnvIsBottom(env) == \E r \in DOMAIN env : is_bottom(env[r])
EnvGet(env, r) == IF EnvIsBottom(env) THEN Bottom ELSE env[r]
EnvSet(env, r, v) ==
  IF EnvIsBottom(env) THEN env
  ELSE IF is_bottom(v) THEN [x \in DOMAIN env |-> Bottom]
  ELSE [env EXCEPT ![r] = v]

(***************************************************************************)
(* The scope: two classes, A with a static and an instance field, and      *)
(* three methods. What else the constructor reads of them is in prog.      *)
(***************************************************************************)
Classes == {"A", "B"}
Fields == {"A.s", "A.i"}
Methods == {"A.m0", "B.m1", "B.m2"}
NoField == "nullptr"
NoMethod == "nullptr"

field_class(f) == "A"
is_static(f) == f = "A.s"
method_class(m) == IF m = "A.m0" THEN "A" ELSE "B"
get_sfields(cls) == {f \in Fields : field_class(f) = cls /\ is_static(f)}
get_ifields(cls) == {f \in Fields : field_class(f) = cls /\ ~is_static(f)}

(***************************************************************************)
(* Instructions and blocks. An instruction names the field or method its   *)
(* reference resolves to (nullptr when it does not resolve); puts and      *)
(* returns read their operand from register v0.                            *)
(***************************************************************************)
Insn(op, ref, lit) == [op |-> op, ref |-> ref, alt |-> "nullptr", lit |-> lit]
Const(c) == Insn("const", "", c)
Sput(f) == Insn("sput", f, 0)
Iput(f) == Insn("iput", f, 0)
Return == Insn("return", "", 0)
ReturnVoid == Insn("return-void", "", 0)
Sget(f) == Insn("sget", f, 0)
Iget(f) == Insn("iget", f, 0)
\* an invoke: its callee under opcode_to_search (ref), under
\* MethodSearch::InterfaceVirtual (alt), and its call-site number (lit)
Invoke(op, ref, alt) == [op |-> op, ref |-> ref, alt |-> alt, lit |-> 1]
NoInsn == Insn("none", "", 0)
Block(entry, insns) == [entry |-> entry, insns |-> insns]
\* the entry state of a reachable block whose v0 holds v
Reach(v) == [TopEnv EXCEPT !["v0"] = v]

is_an_sput(op) == op = "sput"
is_an_iput(op) == op = "iput"
is_a_return(op) == op \in {"return", "return-void"}
InvokeOps == {"invoke-direct", "invoke-static", "invoke-virtual",
              "invoke-interface", "invoke-super"}
ReadOps == {"sget", "iget"} \cup InvokeOps

resolve_field(insn) == insn.ref
root_field(f) == f \in prog.f_root
is_external(f) == f \in prog.f_external
can_delete(f) == f \notin prog.f_keep
is_volatile(f) == f \in prog.f_volatile
is_final(f) == f \in prog.f_final
get_code(m) == m \in prog.has_code
is_clinit(m) == m \in prog.clinits
get_clinit(cls) ==
  IF \E m \in prog.clinits : method_class(m) = cls
  THEN CHOOSE m \in prog.clinits : method_class(m) = cls
  ELSE NoMethod

\* the one-instruction transfer function of the intraprocedural analysis
analyze_instruction(insn, env) ==
  CASE insn.op = "const" -> EnvSet(env, "v0", Constant(insn.lit))
    [] insn.op \in ReadOps -> EnvSet(env, "RESULT_REGISTER", Top)
    [] OTHER -> env

\* the state after the first i instructions of a block, replayed from its entry state
RECURSIVE Replay(_, _)
Replay(b, i) ==
  IF i = 0 THEN b.entry ELSE analyze_instruction(b.insns[i], Replay(b, i - 1))

\* the instructions of a method in the order the walk visits them: <<block, index>>
RECURSIVE Flatten(_, _)
Flatten(blocks, b) ==
  IF b > Len(blocks) THEN <<>>
  ELSE [i \in 1..Len(blocks[b].insns) |-> <<b, i>>] \o Flatten(blocks, b + 1)

InsnsOf(m) == Flatten(prog.code[m], 1)

(***************************************************************************)
(* set_fields_in_partition, analyze_clinits, initialize_ifields            *)
(***************************************************************************)
\* Faulty variant: the static and the instance fields of the class are both written
set_fields_in_partition_all_fields(cls, field_env, static, field_partition) ==
  [f \in Fields |-> IF field_class(f) = cls THEN EnvGet(field_env, f)
                    ELSE field_partition[f]]

\* Faulty variant: the bindings of field_env are walked, not the fields of the class,
\* so a field whose value is unknown (Top, no binding) is not written
set_fields_in_partition_bindings_only(cls, field_env, static, field_partition) ==
  LET fields == IF static THEN get_sfields(cls) ELSE get_ifields(cls)
  IN  [f \in Fields |-> IF f \in fields /\ ~is_top(EnvGet(field_env, f))
                        THEN EnvGet(field_env, f)
                        ELSE field_partition[f]]

set_fields_in_partition(cls, field_env, static, field_partition) ==
  LET fields == IF static THEN get_sfields(cls) ELSE get_ifields(cls)
  IN  [f \in Fields |-> IF f \in fields THEN EnvGet(field_env, f)
                        ELSE field_partition[f]]

\* set_encoded_values: the static fields' DexEncodedValues as an environment
set_encoded_values(cls) ==
  [f \in Fields |-> IF f \in get_sfields(cls) THEN prog.encoded[f] ELSE Top]

\* get_exit_state_at(cfg.exit_block()).get_field_environment() of a <clinit>
get_exit_state_at(clinit) == prog.clinit_exit[method_class(clinit)]

analyze_clinits_cls(cls, field_partition) ==
  IF get_clinit(cls) = NoMethod
  THEN set_fields_in_partition(cls, set_encoded_values(cls), TRUE, field_partition)
  ELSE set_fields_in_partition(cls, get_exit_state_at(get_clinit(cls)), TRUE,
                               field_partition)

analyze_clinits(field_partition) ==
  analyze_clinits_cls("B", analyze_clinits_cls("A", field_partition))

not_eligible_ifield(f) ==
  is_static(f) \/ is_external(f) \/ ~can_delete(f) \/ is_volatile(f)

\* Faulty variant: the definitely-assigned hint is ignored
initialize_ifields_always_zero(field_partition) ==
  [f \in Fields |->
     IF not_eligible_ifield(f) THEN field_partition[f] ELSE Constant(0)]

initialize_ifields(field_partition) ==
  [f \in Fields |->
     IF not_eligible_ifield(f) THEN field_partition[f]
     ELSE IF f \in prog.definitely_assigned_ifields THEN Bottom
     ELSE Constant(0)]

(***************************************************************************)
(* The constructor up to the parallel walk: classification of fields and   *)
(* methods, analyze_clinits, and the seeding at the start of collect.      *)
(***************************************************************************)
EmptyFieldPartition == [f \in Fields |-> Bottom]
EmptyMethodPartition == [m \in Methods |-> Bottom]

\* Faulty variant: a volatile instance field is classified like any other
KnownFieldsOfScope_volatile_known ==
  {f \in Fields :
     /\ field_class(f) \notin prog.field_blocklist
     /\ \/ is_static(f) /\ ~root_field(f)
        \/ ~(is_static(f) \/ is_external(f) \/ ~can_delete(f))}

KnownFieldsOfScope ==
  {f \in Fields :
     /\ field_class(f) \notin prog.field_blocklist
     /\ \/ is_static(f) /\ ~root_field(f)
        \/ ~not_eligible_ifield(f)}

\* Faulty variant: a rooted method of the non-true-virtual set is known as well
KnownMethodsOfScope_root_known ==
  {m \in prog.non_true_virtuals : get_code(m)}
    \cup {m \in Methods : get_code(m) /\ m \notin prog.m_virtual}

KnownMethodsOfScope ==
  {m \in prog.non_true_virtuals : m \notin prog.m_root /\ get_code(m)}
    \cup {m \in Methods : get_code(m) /\ m \notin prog.m_virtual}

SeededFieldPartition == initialize_ifields(analyze_clinits(EmptyFieldPartition))

Construct ==
  /\ phase = "new"
  /\ phase' = "walk"
  /\ m_known_fields' = KnownFieldsOfScope
  /\ m_known_methods' = KnownMethodsOfScope
  /\ m_field_partition' = SeededFieldPartition
  /\ m_method_partition' = EmptyMethodPartition
  /\ UNCHANGED <<passVars, prog, wpc, fields_value_tmp, methods_value_tmp, ops, last>>

(***************************************************************************)
(* The parallel walk of collect: one step visits one instruction of one    *)
(* method (walk::parallel::methods gives each method to one worker; the    *)
(* ConcurrentMap update of one key is atomic).                             *)
(***************************************************************************)
\* Faulty variant: an update that does not see the entries other workers have appended
Append1_lost_update(tmp, key, value) == [tmp EXCEPT ![key] = <<value>>]

\* tmp->update(key, [value](..., s, ...) { s.emplace_back(value); })
Append1(tmp, key, value) == [tmp EXCEPT ![key] = Append(@, value)]

\* Faulty variant: stores inside the class's own <clinit> are recorded like any other
collect_field_values_no_clinit_check(insn, env, clinit_cls, tmp) ==
  IF ~is_an_sput(insn.op) /\ ~is_an_iput(insn.op) THEN tmp
  ELSE LET field == resolve_field(insn)
       IN  IF field # NoField /\ field \in m_known_fields
           THEN Append1(tmp, field, EnvGet(env, "v0"))
           ELSE tmp

collect_field_values(insn, env, clinit_cls, tmp) ==
  IF ~is_an_sput(insn.op) /\ ~is_an_iput(insn.op) THEN tmp
  ELSE LET field == resolve_field(insn)
       IN  IF field # NoField /\ field \in m_known_fields
           THEN IF is_an_sput(insn.op) /\ field_class(field) = clinit_cls
                THEN tmp
                ELSE Append1(tmp, field, EnvGet(env, "v0"))
           ELSE tmp

\* Faulty variant: return-void is treated as a return of its (absent) operand
collect_return_values_void_as_value(insn, env, method, tmp) ==
  IF ~is_a_return(insn.op) THEN tmp
  ELSE Append1(tmp, method, EnvGet(env, "v0"))

collect_return_values(insn, env, method, tmp) ==
  IF ~is_a_return(insn.op) THEN tmp
  ELSE IF insn.op = "return-void" THEN Append1(tmp, method, Top)
  ELSE Append1(tmp, method, EnvGet(env, "v0"))

WorkerStep(method) ==
  /\ phase = "walk"
  /\ get_code(method)
  /\ wpc[method] < Len(InsnsOf(method))
  /\ LET at == InsnsOf(method)[wpc[method] + 1]
         b == prog.code[method][at[1]]
         insn == b.insns[at[2]]
         env == Replay(b, at[2])
         clinit_cls == IF is_clinit(method) THEN method_class(method) ELSE "nullptr"
     IN  /\ fields_value_tmp' =
              collect_field_values(insn, env, clinit_cls, fields_value_tmp)
         /\ methods_value_tmp' =
              collect_return_values(insn, env, method, methods_value_tmp)
  /\ wpc' = [wpc EXCEPT ![method] = @ + 1]
  /\ UNCHANGED <<passVars, prog, phase, m_known_fields, m_known_methods, m_field_partition,
                 m_method_partition, ops, last>>

\* Faulty variant: the reduction assigns each observation instead of joining it
join_all_overwrite(current_value, values) ==
  IF values = <<>> THEN current_value ELSE values[Len(values)]

\* Faulty variant: only the first observation of an entity is joined
join_all_first_only(current_value, values) ==
  IF values = <<>> THEN current_value ELSE join(current_value, Head(values))

\* the reduction of one entity's observations: update(key, join_with) per value
RECURSIVE join_all(_, _)
join_all(current_value, values) ==
  IF values = <<>> THEN current_value
  ELSE join_all(join(current_value, Head(values)), Tail(values))

WalkDone == \A m \in Methods : get_code(m) => wpc[m] = Len(InsnsOf(m))

\* the end of collect and of the constructor, once every worker has finished
Reduce ==
  /\ phase = "walk"
  /\ WalkDone
  /\ m_field_partition' =
       [f \in Fields |-> join_all(m_field_partition[f], fields_value_tmp[f])]
  /\ m_method_partition' =
       [m \in Methods |-> join_all(m_method_partition[m], methods_value_tmp[m])]
  /\ fields_value_tmp' = [f \in Fields |-> <<>>]
  /\ methods_value_tmp' = [m \in Methods |-> <<>>]
  /\ phase' = "built"
  /\ UNCHANGED <<passVars, prog, wpc, m_known_fields, m_known_methods, ops, last>>

(***************************************************************************)
(* collect_static_finals and collect_instance_finals                       *)
(***************************************************************************)
NoCall == [op |-> "none", cls |-> "", insn |-> NoInsn, wps |-> FALSE, ret |-> FALSE,
           env0 |-> TopEnv, env |-> TopEnv]
Call(op, cls) == [NoCall EXCEPT !.op = op, !.cls = cls]

\* field_env.set(field, ConstantValue::top()) for every field of S
SetTop(field_env, S) ==
  [f \in DOMAIN field_env |->
     IF f \in S THEN EnvSet(field_env, f, Top)[f] ELSE field_env[f]]

\* Faulty variant: the blocklist is not consulted
StaticFinals_no_blocklist(cls) ==
  {f \in get_sfields(cls) : is_static(f) /\ is_final(f) /\ ~is_external(f)}

StaticFinals(cls) ==
  {f \in get_sfields(cls) :
     is_static(f) /\ is_final(f) /\ ~is_external(f)
       /\ field_class(f) \notin prog.field_blocklist}

collect_static_finals(cls, field_env) ==
  /\ phase = "built"
  /\ ops < MaxOps
  /\ m_known_fields' = m_known_fields \cup StaticFinals(cls)
  /\ m_field_partition' =
       set_fields_in_partition(
         cls, SetTop(field_env, get_sfields(cls) \ StaticFinals(cls)), TRUE,
         m_field_partition)
  /\ ops' = ops + 1
  /\ last' = Call("collect_static_finals", cls)
  /\ UNCHANGED <<passVars, prog, phase, wpc, fields_value_tmp, methods_value_tmp,
                 m_known_methods, m_method_partition>>

InstanceFinals(cls, eligible_ifields) ==
  IF prog.ctors[cls] > 1 THEN {}
  ELSE {f \in get_ifields(cls) :
          f \in eligible_ifields /\ field_class(f) \notin prog.field_blocklist}

collect_instance_finals(cls, eligible_ifields, field_env) ==
  /\ phase = "built"
  /\ ops < MaxOps
  /\ m_known_fields' = m_known_fields \cup InstanceFinals(cls, eligible_ifields)
  /\ m_field_partition' =
       set_fields_in_partition(
         cls,
         SetTop(field_env, get_ifields(cls) \ InstanceFinals(cls, eligible_ifields)),
         FALSE, m_field_partition)
  /\ ops' = ops + 1
  /\ last' = Call("collect_instance_finals", cls)
  /\ UNCHANGED <<passVars, prog, phase, wpc, fields_value_tmp, methods_value_tmp,
                 m_known_methods, m_method_partition>>

\* the field environments handed to collect_*_finals
FieldEnvs ==
  {[f \in Fields |-> v] : v \in {Top, Bottom, Constant(1)}}

(***************************************************************************)
(* The read operations of WholeProgramState and the analyzer hooks. wps is *)
(* FALSE when the analyzer is handed no whole-program state (nullptr).     *)
(***************************************************************************)
get_field_value(field) ==
  IF field \notin m_known_fields THEN Top ELSE m_field_partition[field]

get_return_value(method) ==
  IF method \notin m_known_methods THEN Top ELSE m_method_partition[method]

has_call_graph == prog.call_graph
method_is_dynamic(method) == method \in prog.dynamic
get_return_value_from_cg(insn) == prog.cg_return[insn.lit]

Declined(env) == [ret |-> FALSE, env |-> env]
Refined(env, value) == [ret |-> TRUE, env |-> EnvSet(env, "RESULT_REGISTER", value)]

\* Faulty variant: the helper reads the field partition itself, not get_field_value
analyze_gets_helper_reads_partition(wps, insn, env) ==
  IF ~wps THEN Declined(env)
  ELSE LET field == resolve_field(insn)
       IN  IF field = NoField THEN Declined(env)
           ELSE LET value == m_field_partition[field]
                IN  IF is_top(value) THEN Declined(env)
                    ELSE Refined(env, value)

\* Faulty variant: the result register is written before the value is tested
analyze_gets_helper_set_before_check(wps, insn, env) ==
  IF ~wps THEN Declined(env)
  ELSE LET field == resolve_field(insn)
       IN  IF field = NoField THEN Declined(env)
           ELSE LET value == get_field_value(field)
                IN  [ret |-> ~is_top(value),
                     env |-> EnvSet(env, "RESULT_REGISTER", value)]

analyze_gets_helper(wps, insn, env) ==
  IF ~wps THEN Declined(env)
  ELSE LET field == resolve_field(insn)
       IN  IF field = NoField THEN Declined(env)
           ELSE LET value == get_field_value(field)
                IN  IF is_top(value) THEN Declined(env)
                    ELSE Refined(env, value)

analyze_sget(wps, insn, env) == analyze_gets_helper(wps, insn, env)
analyze_iget(wps, insn, env) == analyze_gets_helper(wps, insn, env)

opcode_to_search(insn) ==
  CASE insn.op = "invoke-direct" -> "Direct"
    [] insn.op = "invoke-static" -> "Static"
    [] insn.op = "invoke-virtual" -> "Virtual"
    [] insn.op = "invoke-super" -> "Super"
    [] OTHER -> "Interface"

\* resolve_method(insn->get_method(), search)
resolve_method(insn, search) ==
  IF search = "InterfaceVirtual" THEN insn.alt ELSE insn.ref

\* Faulty variant: the dynamic flag of the resolved method is not consulted
analyze_invoke_cg_ignores_dynamic(insn, env) ==
  LET first == resolve_method(insn, opcode_to_search(insn))
      method == IF first = NoMethod /\ opcode_to_search(insn) = "Virtual"
                THEN resolve_method(insn, "InterfaceVirtual")
                ELSE first
  IN  IF method = NoMethod THEN Declined(env)
      ELSE LET value == get_return_value_from_cg(insn)
           IN  IF is_top(value) THEN Declined(env) ELSE Refined(env, value)

analyze_invoke_cg(insn, env) ==
  LET first == resolve_method(insn, opcode_to_search(insn))
      method == IF first = NoMethod /\ opcode_to_search(insn) = "Virtual"
                THEN resolve_method(insn, "InterfaceVirtual")
                ELSE first
  IN  IF method = NoMethod THEN Declined(env)
      ELSE IF method_is_dynamic(method) THEN Declined(env)
      ELSE LET value == get_return_value_from_cg(insn)
           IN  IF is_top(value) THEN Declined(env) ELSE Refined(env, value)

\* Faulty variant: every invoke kind is eligible
analyze_invoke_nocg_any_kind(insn, env) ==
  LET method == resolve_method(insn, opcode_to_search(insn))
  IN  IF method = NoMethod THEN Declined(env)
      ELSE LET value == get_return_value(method)
           IN  IF is_top(value) THEN Declined(env) ELSE Refined(env, value)

analyze_invoke_nocg(insn, env) ==
  IF insn.op \notin {"invoke-direct", "invoke-static", "invoke-virtual"}
  THEN Declined(env)
  ELSE LET method == resolve_method(insn, opcode_to_search(insn))
       IN  IF method = NoMethod THEN Declined(env)
           ELSE LET value == get_return_value(method)
                IN  IF is_top(value) THEN Declined(env) ELSE Refined(env, value)

analyze_invoke(wps, insn, env) ==
  IF ~wps THEN Declined(env)
  ELSE IF has_call_graph THEN analyze_invoke_cg(insn, env)
  ELSE analyze_invoke_nocg(insn, env)

\* the environments the per-method pass hands to a hook: the result register
\* unknown, or still holding the result of an earlier instruction
AnalyzerEnvs == {TopEnv, [TopEnv EXCEPT !["RESULT_REGISTER"] = Constant(0)]}

\* the instructions of the scope
InsnsOfScope ==
  UNION {UNION {{prog.code[m][b].insns[i] : i \in DOMAIN prog.code[m][b].insns} :
                  b \in DOMAIN prog.code[m]} : m \in Methods}

Analyzed(insn, wps, env0, r) ==
  /\ last' = [op |-> insn.op, cls |-> "", insn |-> insn, wps |-> wps, ret |-> r.ret,
              env0 |-> env0, env |-> r.env]
  /\ UNCHANGED <<passVars, prog, phase, wpc, fields_value_tmp, methods_value_tmp, m_known_fields,
                 m_known_methods, m_field_partition, m_method_partition, ops>>

AnalyzeSget ==
  /\ phase = "built"
  /\ \E insn \in InsnsOfScope, wps \in BOOLEAN, env0 \in AnalyzerEnvs :
       /\ insn.op = "sget"
       /\ Analyzed(insn, wps, env0, analyze_sget(wps, insn, env0))

AnalyzeIget ==
  /\ phase = "built"
  /\ \E insn \in InsnsOfScope, wps \in BOOLEAN, env0 \in AnalyzerEnvs :
       /\ insn.op = "iget"
       /\ Analyzed(insn, wps, env0, analyze_iget(wps, insn, env0))

AnalyzeInvoke ==
  /\ phase = "built"
  /\ \E insn \in InsnsOfScope, wps \in BOOLEAN, env0 \in AnalyzerEnvs :
       /\ insn.op \in InvokeOps
       /\ Analyzed(insn, wps, env0, analyze_invoke(wps, insn, env0))

(***************************************************************************)
(* The inputs. DefaultProgram is a scope with nothing kept, blocklisted or *)
(* rooted and no code; the families below vary it.                         *)
(***************************************************************************)
FieldEnv(s, i) == [f \in Fields |-> IF is_static(f) THEN s ELSE i]

DefaultProgram ==
  [clinits |-> {},
   code |-> [m \in Methods |-> <<>>],
   has_code |-> {"A.m0", "B.m1", "B.m2"},
   f_root |-> {}, f_external |-> {}, f_keep |-> {}, f_volatile |-> {}, f_final |-> {},
   field_blocklist |-> {},
   definitely_assigned_ifields |-> {},
   encoded |-> [f \in Fields |-> Constant(0)],
   clinit_exit |-> [c \in Classes |-> FieldEnv(Top, Top)],
   m_virtual |-> {"B.m2"}, m_root |-> {}, non_true_virtuals |-> {},
   ctors |-> [c \in Classes |-> 1],
   call_graph |-> FALSE, dynamic |-> {}, cg_return |-> <<Top>>]

\* what a <clinit> of A leaves bound to A.s at its exit
ExitValues == {Top, Constant(MaxConst)}
\* the state at the entry of a block: unreachable, or v0 holding a literal
Entries == {BottomEnv} \cup {Reach(l) : l \in Literals}
Stores == {Sput("A.s"), Iput("A.i"), Return, ReturnVoid}

\* Programs that vary the stores and returns the walk visits. A.m0, the <clinit>
\* of A or an ordinary static method, has two blocks that load a literal and then
\* store or return it; B.m1 has one block that stores or returns what its entry
\* state holds; B.m2 is abstract.
WalkPrograms ==
  {[DefaultProgram EXCEPT
      !.clinits = cl,
      !.clinit_exit = [c \in Classes |-> FieldEnv(x, Top)],
      !.has_code = {"A.m0", "B.m1"},
      !.code = [m \in Methods |->
                  CASE m = "A.m0" -> <<Block(e1, <<Const(1), i1>>),
                                       Block(e2, <<Const(MaxConst), i2>>)>>
                    [] m = "B.m1" -> <<Block(e3, <<i3>>)>>
                    [] OTHER -> <<>>]] :
     cl \in {{}, {"A.m0"}}, x \in ExitValues,
     e1 \in {BottomEnv, TopEnv}, e2 \in {BottomEnv, TopEnv},
     e3 \in Entries, i1 \in Stores, i2 \in Stores,
     i3 \in Stores \cup {Sput(NoField)}}

\* Programs that vary what decides whether a field is known, and the number of
\* constructors of a class (none, one, two), under the same code:
\* A.m0 stores to both fields, B.m1 stores to and reads both and calls B.m2.
FlagPrograms ==
  {[DefaultProgram EXCEPT
      !.clinits = cl,
      !.clinit_exit = [c \in Classes |-> FieldEnv(x, Top)],
      !.f_root = root, !.f_keep = keep, !.f_final = final,
      !.field_blocklist = blocklist,
      !.ctors = [c \in Classes |-> n],
      !.code = [m \in Methods |->
                  CASE m = "A.m0" -> <<Block(Reach(Constant(1)),
                                             <<Sput("A.s"), Iput("A.i"), ReturnVoid>>)>>
                    [] m = "B.m1" -> <<Block(Reach(Constant(1)),
                                             <<Sget("A.s"), Iget("A.i"),
                                               Invoke("invoke-virtual", "B.m2", NoMethod),
                                               Return>>)>>
                    [] OTHER -> <<Block(Reach(Constant(MaxConst)), <<Return>>)>>]] :
     cl \in {{}, {"A.m0"}}, x \in ExitValues,
     root \in SUBSET {"A.s"}, keep \in SUBSET {"A.i"}, final \in SUBSET {"A.s"},
     blocklist \in SUBSET {"A"}, n \in 0..2}

\* the call graph handed to the constructor, if any: <<has graph, dynamic methods,
\* the return value it gives the call site>>
CallGraphs ==
  {<<FALSE, {}, Top>>}
    \cup {<<TRUE, d, v>> : d \in SUBSET {"B.m1", "B.m2"}, v \in {Top, Constant(MaxConst)}}

\* Programs that vary an invoke in A.m0, what its callees B.m1 (static) and B.m2
\* (virtual) return, whether B.m2 is a known method, and the call graph.
InvokePrograms ==
  {[DefaultProgram EXCEPT
      !.non_true_virtuals = ntv,
      !.call_graph = cg[1], !.dynamic = cg[2], !.cg_return = <<cg[3]>>,
      !.code = [m \in Methods |->
                  CASE m = "A.m0" -> <<Block(TopEnv, <<Invoke(op, ref, alt), ReturnVoid>>)>>
                    [] m = "B.m1" -> <<b1>>
                    [] OTHER -> <<Block(Reach(Constant(1)), <<Return>>)>>]] :
     ntv \in SUBSET {"B.m2"}, cg \in CallGraphs,
     op \in InvokeOps, ref \in {NoMethod, "B.m1", "B.m2"}, alt \in {NoMethod, "B.m2"},
     b1 \in {Block(e, <<Return>>) : e \in Entries} \cup {Block(TopEnv, <<ReturnVoid>>)}}

\* Programs that vary what the three hooks look at: whether A.s and A.i are known,
\* the invoke of A.m0 and its resolution, and the call graph. B.m1 returns a
\* constant or nothing, B.m2 a constant.
ReadPrograms ==
  {[DefaultProgram EXCEPT
      !.f_root = root, !.f_keep = keep,
      !.call_graph = cg[1], !.dynamic = cg[2], !.cg_return = <<cg[3]>>,
      !.code = [m \in Methods |->
                  CASE m = "A.m0" -> <<Block(TopEnv, <<Sget("A.s"), Iget("A.i"),
                                                       Sget(NoField),
                                                       Invoke(op, ref, alt),
                                                       ReturnVoid>>)>>
                    [] m = "B.m1" -> <<Block(Reach(Constant(MaxConst)), <<i1>>)>>
                    [] OTHER -> <<Block(Reach(Constant(1)), <<Return>>)>>]] :
     root \in SUBSET {"A.s"}, keep \in SUBSET {"A.i"}, cg \in CallGraphs,
     op \in InvokeOps, ref \in {NoMethod, "B.m1"}, alt \in {NoMethod, "B.m2"},
     i1 \in {Return, ReturnVoid}}

\* what a <clinit> of A leaves bound to A.s at its exit, an exit that is never
\* reached (a Bottom environment) included
SeedExitValues == {Top, Constant(MaxConst), Bottom}
\* the DexEncodedValue of A.s, as set_encoded_values reads it
EncodedValues == {Constant(0), Constant(1), Top}

\* Programs that vary what seeds the field partition: the <clinit> of A, its exit
\* state and the encoded value of A.s, the definitely-assigned hint for A.i and
\* whether A.s and A.i are known; A.m0 stores MaxConst or nothing, B.m1 stores to
\* A.i what its entry state holds, or nothing.
SeedPrograms ==
  {[DefaultProgram EXCEPT
      !.clinits = cl,
      !.clinit_exit = [c \in Classes |-> FieldEnv(x, Top)],
      !.encoded = [f \in Fields |-> IF is_static(f) THEN enc ELSE Constant(0)],
      !.definitely_assigned_ifields = da,
      !.f_root = root, !.f_keep = keep,
      !.has_code = {"A.m0", "B.m1"},
      !.code = [m \in Methods |->
                  CASE m = "A.m0" -> <<Block(TopEnv, <<Const(MaxConst), i1>>)>>
                    [] m = "B.m1" -> <<Block(e3, <<i3>>)>>
                    [] OTHER -> <<>>]] :
     cl \in {{}, {"A.m0"}}, x \in SeedExitValues, enc \in EncodedValues,
     da \in SUBSET {"A.i"}, root \in SUBSET {"A.s"}, keep \in SUBSET {"A.i"},
     i1 \in {Iput("A.i"), Sput("A.s"), ReturnVoid},
     e3 \in Entries, i3 \in {Iput("A.i"), ReturnVoid}}

\* Programs that vary every flag the classification of a field reads.
FieldFlagPrograms ==
  {[DefaultProgram EXCEPT
      !.f_root = root, !.f_external = external, !.f_keep = keep,
      !.f_volatile = volatile, !.field_blocklist = blocklist,
      !.has_code = {"A.m0"},
      !.code = [m \in Methods |->
                  IF m = "A.m0"
                  THEN <<Block(Reach(Constant(1)),
                               <<Sput("A.s"), Iput("A.i"), ReturnVoid>>)>>
                  ELSE <<>>]] :
     root \in SUBSET Fields, external \in SUBSET Fields, keep \in SUBSET Fields,
     volatile \in SUBSET Fields, blocklist \in SUBSET {"A"}}

\* Programs that vary everything the classification of a method reads, for the
\* methods of B.
MethodFlagPrograms ==
  {[DefaultProgram EXCEPT
      !.has_code = hc, !.m_virtual = virtual, !.m_root = root,
      !.non_true_virtuals = ntv,
      !.code = [m \in Methods |-> <<Block(Reach(Constant(1)), <<Return>>)>>]] :
     hc \in SUBSET {"B.m1", "B.m2"}, virtual \in SUBSET {"B.m1", "B.m2"},
     root \in SUBSET {"B.m1", "B.m2"}, ntv \in SUBSET {"B.m1", "B.m2"}}

\* run_pass has not been called: the members of the pass are empty
PassIdle ==
  /\ app = [code |-> <<>>]
  /\ pc = "idle"
  /\ dpc = <<>>
  /\ rdone = {}
  /\ m_stores_use_count = <<>>
  /\ m_stores_method_uses_map = <<>>
  /\ m_stores_method_uses_reflectively_map = <<>>
  /\ reported = {}
  /\ violation_count = 0
  /\ files = <<>>
  /\ metrics = <<>>

InitWith(programs) ==
  /\ PassIdle
  /\ prog \in programs
  /\ phase = "new"
  /\ wpc = [m \in Methods |-> 0]
  /\ fields_value_tmp = [f \in Fields |-> <<>>]
  /\ methods_value_tmp = [m \in Methods |-> <<>>]
  /\ m_known_fields = {}
  /\ m_known_methods = {}
  /\ m_field_partition = EmptyFieldPartition
  /\ m_method_partition = EmptyMethodPartition
  /\ ops = 0
  /\ last = NoCall

(***************************************************************************)
(* Spec: a state is constructed and then called.                           *)
(***************************************************************************)
Init == InitWith(FlagPrograms)

Next ==
  \/ Construct
  \/ \E m \in Methods : WorkerStep(m)
  \/ Reduce
  \/ \E cls \in Classes, field_env \in FieldEnvs : collect_static_finals(cls, field_env)
  \/ \E cls \in Classes, eligible_ifields \in SUBSET Fields, field_env \in FieldEnvs :
       collect_instance_finals(cls, eligible_ifields, field_env)
  \/ AnalyzeSget
  \/ AnalyzeIget
  \/ AnalyzeInvoke

Spec == Init /\ [][Next]_vars

(***************************************************************************)
(* SpecCollect: the constructor alone, over the programs that vary the     *)
(* code the walk visits.                                                   *)
(***************************************************************************)
InitCollect == InitWith(WalkPrograms)

NextCollect ==
  \/ Construct
  \/ \E m \in Methods : WorkerStep(m)
  \/ Reduce

SpecCollect == InitCollect /\ [][NextCollect]_vars

(***************************************************************************)
(* SpecInvoke: the constructor and analyze_invoke, over the programs that  *)
(* vary the call site, its callees and the call graph.                     *)
(***************************************************************************)
InitInvoke == InitWith(InvokePrograms)

NextInvoke ==
  \/ Construct
  \/ \E m \in Methods : WorkerStep(m)
  \/ Reduce
  \/ AnalyzeInvoke

SpecInvoke == InitInvoke /\ [][NextInvoke]_vars

(***************************************************************************)
(* SpecAnalyze: the constructor and the three analyzer hooks, over the     *)
(* programs that vary what the hooks look at.                              *)
(***************************************************************************)
InitAnalyze == InitWith(ReadPrograms)

NextAnalyze ==
  \/ Construct
  \/ \E m \in Methods : WorkerStep(m)
  \/ Reduce
  \/ AnalyzeSget
  \/ AnalyzeIget
  \/ AnalyzeInvoke

SpecAnalyze == InitAnalyze /\ [][NextAnalyze]_vars

(***************************************************************************)
(* SpecConstruct: the constructor alone, over the programs that vary what  *)
(* the classification and the seeding read.                                *)
(***************************************************************************)
InitConstruct == InitWith(SeedPrograms \cup FieldFlagPrograms \cup MethodFlagPrograms)

NextConstruct ==
  \/ Construct
  \/ \E m \in Methods : WorkerStep(m)
  \/ Reduce

SpecConstruct == InitConstruct /\ [][NextConstruct]_vars

(***************************************************************************)
(* AppModuleUsagePass. Store 0 is the root store, stores 1 and 2 are app   *)
(* modules; class R is in the root store, P in module m1, Q in module m2,  *)
(* and Ext is a type of no store. R.f is a method of R, P.g one of P; R.x  *)
(* is a field of R, P.y one of P.                                          *)
(***************************************************************************)
StoreIds == {0, 1, 2}
root_store == 0
\* stores.at(store).get_name()
get_name(store) == CASE store = 0 -> "root" [] store = 1 -> "m1" [] OTHER -> "m2"
is_root_store(store) == store = 0

AppTypes == {"R", "P", "Q"}
AppMethods == {"R.f", "P.g"}
\* the fields in the order walk::fields visits them
AppFields == <<"R.x", "P.y">>
NoType == "none"

\* method->get_class() and field->get_class()
get_class(entrypoint) == IF entrypoint \in {"R.f", "R.x"} THEN "R" ELSE "P"

\* run_pass: each class of store idx is mapped to idx
m_type_store_map ==
  [t \in AppTypes |-> CASE t = "R" -> 0 [] t = "P" -> 1 [] OTHER -> 2]

\* an instruction of the pass's scope: the types it references through its method,
\* field or type operand, whether it is an invoke, and the type that the reflection
\* analysis and type_used give for its RESULT_REGISTER (none if they give none)
AppInsn(types, invoke, refl) == [types |-> types, invoke |-> invoke, refl |-> refl]

\* the sequences that enumerate the set S once: the orders in which an
\* unordered_set or a ConcurrentMap may be iterated
Orders(S) ==
  {q \in [1..Cardinality(S) -> S] : \A i, j \in 1..Cardinality(S) : q[i] = q[j] => i = j}

\* the elements of set S in the order ord lists them
InOrder(ord, S) ==
  LET member(x) == x \in S IN SelectSeq(ord, member)

RECURSIVE SumOver(_, _)
SumOver(f, S) ==
  IF S = {} THEN 0
  ELSE LET x == CHOOSE y \in S : TRUE IN f[x] + SumOver(f, S \ {x})

\* @UsesAppModule of an entrypoint or a class: the module names it lists
get_modules_used(entrypoint) == app.anno[entrypoint]

RunPass ==
  /\ pc = "start"
  /\ m_stores_method_uses_map' = [m \in AppMethods |-> {}]
  /\ m_stores_method_uses_reflectively_map' = [m \in AppMethods |-> {}]
  /\ pc' = "direct"
  /\ UNCHANGED <<wpsVars, app, dpc, rdone, m_stores_use_count, reported,
                 violation_count, files, metrics>>

\* the stores of the referenced types that count as an app module reference
app_module_references(types, method_store) ==
  {store \in {m_type_store_map[t] : t \in types \cap AppTypes} :
     store # root_store /\ store # method_store}

\* one instruction of the walk::parallel::opcodes of analyze_direct_app_module_usage
analyze_direct_app_module_usage(method) ==
  /\ pc = "direct"
  /\ dpc[method] < Len(app.code[method])
  /\ LET insn == app.code[method][dpc[method] + 1]
         method_store == m_type_store_map[get_class(method)]
         types_referenced == insn.types
         used == app_module_references(types_referenced, method_store)
     IN  /\ m_stores_method_uses_map' =
              [m_stores_method_uses_map EXCEPT ![method] = @ \cup used]
         /\ m_stores_use_count' =
              [store \in StoreIds |->
                 [m_stores_use_count[store] EXCEPT
                    !.direct_count =
                      @ + Cardinality({t \in types_referenced \cap AppTypes :
                                         /\ m_type_store_map[t] = store
                                         /\ store \in used})]]
  /\ dpc' = [dpc EXCEPT ![method] = @ + 1]
  /\ pc' = IF \A m \in AppMethods : dpc'[m] = Len(app.code[m])
           THEN "reflective" ELSE "direct"
  /\ UNCHANGED <<wpsVars, app, rdone, m_stores_method_uses_reflectively_map,
                 reported, violation_count, files, metrics>>

\* the type an instruction uses reflectively, as analyze_reflective_app_module_usage
\* finds it: none for an invoke
reflective_type(insn) == IF ~insn.invoke THEN insn.refl ELSE NoType

\* one method of the walk::parallel::code of analyze_reflective_app_module_usage
analyze_reflective_app_module_usage(method) ==
  /\ pc = "reflective"
  /\ method \notin rdone
  /\ LET method_store == m_type_store_map[get_class(method)]
         code == app.code[method]
         hits(store) ==
           {i \in DOMAIN code :
              /\ reflective_type(code[i]) \in AppTypes
              /\ m_type_store_map[reflective_type(code[i])] = store
              /\ store # root_store /\ store # method_store}
     IN  /\ m_stores_method_uses_reflectively_map' =
              [m_stores_method_uses_reflectively_map EXCEPT
                 ![method] = @ \cup {store \in StoreIds : hits(store) # {}}]
         /\ m_stores_use_count' =
              [store \in StoreIds |->
                 [m_stores_use_count[store] EXCEPT
                    !.reflective_count = @ + Cardinality(hits(store))]]
  /\ rdone' = rdone \cup {method}
  /\ pc' = IF rdone' = AppMethods THEN "report" ELSE "reflective"
  /\ UNCHANGED <<wpsVars, app, dpc, m_stores_method_uses_map, reported,
                 violation_count, files, metrics>>

\* Faulty variant: a store used both ways is checked once per way
violation_checks_both_ways(direct, reflective) == direct \o reflective

\* generate_report: the stores violation_check is called on for one method, the
\* directly used ones and then the reflectively used ones that are not among them
violation_checks(direct, reflective) ==
  LET only_reflective(store) == \A i \in DOMAIN direct : direct[i] # store
  IN  direct \o SelectSeq(reflective, only_reflective)

\* the module names of checks that the annotations do not list
unannotated(checks, annotated_module_names) ==
  LET names == [i \in DOMAIN checks |-> get_name(checks[i])]
      missing(name) == name \notin annotated_module_names
  IN  SelectSeq(names, missing)

\* what violation() writes for the first module of a line, before it aborts
AbortedLine(entrypoint, module) == <<entrypoint, module>>

\* generate_report, the body of the loop over m_stores_method_uses_map for one
\* method; a violation aborts the pass when crash_with_violations is set
generate_report_method(method, ord_d, ord_r) ==
  /\ pc = "report"
  /\ method \notin reported
  /\ LET annotated_module_names ==
           get_modules_used(method) \cup get_modules_used(get_class(method))
         checks ==
           violation_checks(
             InOrder(ord_d, m_stores_method_uses_map[method]),
             InOrder(ord_r, m_stores_method_uses_reflectively_map[method]))
         violations == unannotated(checks, annotated_module_names)
     IN  IF violations # <<>> /\ app.crash_with_violations
         THEN /\ files' = [files EXCEPT !.violations =
                             Append(@, AbortedLine(method, violations[1]))]
              /\ pc' = "aborted"
              /\ UNCHANGED <<reported, violation_count>>
         ELSE /\ files' = [files EXCEPT !.violations =
                             IF violations = <<>> THEN @
                             ELSE Append(@, <<method>> \o violations)]
              /\ violation_count' = violation_count + Len(violations)
              /\ reported' = reported \cup {method}
              /\ pc' = IF reported' = AppMethods THEN "fields" ELSE "report"
  /\ UNCHANGED <<wpsVars, app, dpc, rdone, m_stores_use_count,
                 m_stores_method_uses_map, m_stores_method_uses_reflectively_map,
                 metrics>>

\* generate_report: whether a field is a violation (the module of its type is not
\* the root store, not the module of its class, and not annotated)
field_violation(field) ==
  /\ app.field_type[field] \in AppTypes
  /\ LET store_used == m_type_store_map[app.field_type[field]]
         store_from == m_type_store_map[get_class(field)]
     IN  /\ ~is_root_store(store_used)
         /\ get_name(store_used) # get_name(store_from)
         /\ get_name(store_used) \notin
              get_modules_used(field) \cup get_modules_used(get_class(field))

\* generate_report, the walk over the fields and the num_violations metric
generate_report_fields ==
  /\ pc = "fields"
  /\ LET violating == SelectSeq(AppFields, field_violation)
         module(field) == get_name(m_type_store_map[app.field_type[field]])
     IN  IF violating # <<>> /\ app.crash_with_violations
         THEN /\ files' = [files EXCEPT !.violations =
                             Append(@, AbortedLine(violating[1], module(violating[1])))]
              /\ pc' = "aborted"
              /\ UNCHANGED <<violation_count, metrics>>
         ELSE /\ files' = [files EXCEPT !.violations =
                             @ \o [i \in DOMAIN violating |->
                                     <<violating[i], module(violating[i])>>]]
              /\ violation_count' = violation_count + Len(violating)
              /\ metrics' = [metrics EXCEPT !.num_violations = violation_count']
              /\ pc' = "usages"
  /\ UNCHANGED <<wpsVars, app, dpc, rdone, m_stores_use_count,
                 m_stores_method_uses_map, m_stores_method_uses_reflectively_map,
                 reported>>

\* Faulty variant: every reflectively used store is listed with "(r)"
usage_entries_every_reflective(direct, reflective) ==
  [i \in DOMAIN direct |->
     IF \E j \in DOMAIN reflective : reflective[j] = direct[i]
     THEN <<"(d&r)", get_name(direct[i])>>
     ELSE <<"", get_name(direct[i])>>]
    \o [j \in DOMAIN reflective |-> <<"(r)", get_name(reflective[j])>>]

\* output_usages: what follows the method's descriptor on its line, <<prefix, name>>
\* per module
usage_entries(direct, reflective) ==
  LET only_reflective(store) == \A i \in DOMAIN direct : direct[i] # store
      r == SelectSeq(reflective, only_reflective)
  IN  [i \in DOMAIN direct |->
         IF \E j \in DOMAIN reflective : reflective[j] = direct[i]
         THEN <<"(d&r)", get_name(direct[i])>>
         ELSE <<"", get_name(direct[i])>>]
        \o [j \in DOMAIN r |-> <<"(r)", get_name(r[j])>>]

uses_app_module(method) ==
  \/ m_stores_method_uses_map[method] # {}
  \/ m_stores_method_uses_reflectively_map[method] # {}

\* run_pass after generate_report: output_usages when it is configured
output_usages(methods, ord_d, ord_r) ==
  /\ pc = "usages"
  /\ LET using == SelectSeq(methods, uses_app_module)
     IN  files' =
           IF app.output_entrypoints_to_modules
           THEN [files EXCEPT !.usage =
                   [i \in DOMAIN using |->
                      <<using[i]>> \o
                        usage_entries(
                          InOrder(ord_d, m_stores_method_uses_map[using[i]]),
                          InOrder(ord_r,
                                  m_stores_method_uses_reflectively_map[using[i]]))]]
           ELSE files
  /\ pc' = "counts"
  /\ UNCHANGED <<wpsVars, app, dpc, rdone, m_stores_use_count,
                 m_stores_method_uses_map, m_stores_method_uses_reflectively_map,
                 reported, violation_count, metrics>>

\* run_pass to its end: output_use_count when it is configured, and the
\* num_methods_access_app_module metric
output_use_count(ord) ==
  /\ pc = "counts"
  /\ LET counted(store) ==
           m_stores_use_count[store].direct_count
             + m_stores_use_count[store].reflective_count > 0
         stores == SelectSeq(ord, counted)
     IN  files' =
           IF app.output_module_use_count
           THEN [files EXCEPT !.count =
                   [i \in DOMAIN stores |->
                      <<get_name(stores[i]), m_stores_use_count[stores[i]].direct_count,
                        m_stores_use_count[stores[i]].reflective_count>>]]
           ELSE files
  /\ metrics' = [metrics EXCEPT !.num_methods_access_app_module =
                   Cardinality({m \in AppMethods : uses_app_module(m)})]
  /\ pc' = "done"
  /\ UNCHANGED <<wpsVars, app, dpc, rdone, m_stores_use_count,
                 m_stores_method_uses_map, m_stores_method_uses_reflectively_map,
                 reported, violation_count>>

\* the instructions of the modelled methods: a direct reference to P on an invoke
\* (whose result register is not looked at), a direct reference to Q, a reflective
\* use of P, a direct and reflective use of P among references that do not count,
\* and references to the root store only
AppInsns ==
  {AppInsn({"P"}, TRUE, "Q"), AppInsn({"Q"}, FALSE, NoType),
   AppInsn({}, FALSE, "P"), AppInsn({"P", "R", "Ext"}, FALSE, "P"),
   AppInsn({"R"}, FALSE, "R")}

\* the configurations of the pass: <<crash_with_violations,
\* output_entrypoints_to_modules, output_module_use_count>>
PassConfigs == {<<TRUE, TRUE, TRUE>>, <<FALSE, TRUE, TRUE>>, <<FALSE, FALSE, FALSE>>}

\* The inputs of run_pass: R.f has two instructions and P.g one; R.f may be
\* annotated with m1 and R with m2; R.x is of any type and P.y of type P or Q.
Apps ==
  {[code |-> [m \in AppMethods |-> IF m = "R.f" THEN <<i1, i2>> ELSE <<i3>>],
    anno |-> [e \in {"R.f", "P.g", "R.x", "P.y", "R", "P"} |->
                CASE e = "R.f" -> a1 [] e = "R" -> a2 [] OTHER -> {}],
    field_type |-> [f \in {"R.x", "P.y"} |-> IF f = "R.x" THEN t1 ELSE t2],
    crash_with_violations |-> cfg[1],
    output_entrypoints_to_modules |-> cfg[2],
    output_module_use_count |-> cfg[3]] :
     i1 \in AppInsns,
     i2 \in {AppInsn({"Q"}, FALSE, NoType), AppInsn({}, FALSE, "P"),
             AppInsn({"R"}, FALSE, "R")},
     i3 \in {AppInsn({"Q"}, FALSE, NoType), AppInsn({"P"}, FALSE, "P"),
             AppInsn({}, FALSE, "Q")},
     a1 \in SUBSET {"m1"}, a2 \in SUBSET {"m2"},
     t1 \in {"R", "P", "Q", "Ext"}, t2 \in {"P", "Q"},
     cfg \in PassConfigs}

(***************************************************************************)
(* SpecPass: one run of AppModuleUsagePass.                                *)
(***************************************************************************)
InitPass ==
  /\ prog = DefaultProgram
  /\ phase = "new"
  /\ wpc = [m \in Methods |-> 0]
  /\ fields_value_tmp = [f \in Fields |-> <<>>]
  /\ methods_value_tmp = [m \in Methods |-> <<>>]
  /\ m_known_fields = {}
  /\ m_known_methods = {}
  /\ m_field_partition = EmptyFieldPartition
  /\ m_method_partition = EmptyMethodPartition
  /\ ops = 0
  /\ last = NoCall
  /\ app \in Apps
  /\ pc = "start"
  /\ dpc = [m \in AppMethods |-> 0]
  /\ rdone = {}
  /\ m_stores_use_count =
       [store \in StoreIds |-> [direct_count |-> 0, reflective_count |-> 0]]
  /\ m_stores_method_uses_map = <<>>
  /\ m_stores_method_uses_reflectively_map = <<>>
  /\ reported = {}
  /\ violation_count = 0
  /\ files = [violations |-> <<>>, usage |-> <<>>, count |-> <<>>]
  /\ metrics = [num_violations |-> -1, num_methods_access_app_module |-> -1]

NextPass ==
  \/ RunPass
  \/ \E method \in AppMethods : analyze_direct_app_module_usage(method)
  \/ \E method \in AppMethods : analyze_reflective_app_module_usage(method)
  \/ \E method \in AppMethods, ord_d \in Orders(StoreIds), ord_r \in Orders(StoreIds) :
       generate_report_method(method, ord_d, ord_r)
  \/ generate_report_fields
  \/ \E methods \in Orders(AppMethods), ord_d \in Orders(StoreIds),
        ord_r \in Orders(StoreIds) : output_usages(methods, ord_d, ord_r)
  \/ \E ord \in Orders(StoreIds) : output_use_count(ord)

SpecPass == InitPass /\ [][NextPass]_vars

(***************************************************************************)
(* What the claims speak of: the store and return sites of the program.    *)
(***************************************************************************)
\* the k-th instruction the walk visits in method m, and the operand it reads
InsnAt(m, k) == prog.code[m][InsnsOf(m)[k][1]].insns[InsnsOf(m)[k][2]]
ValueAt(m, k) ==
  EnvGet(Replay(prog.code[m][InsnsOf(m)[k][1]], InsnsOf(m)[k][2]), "v0")
\* a return site is reachable when the abstract state replayed up to it is not Bottom
ReachableAt(m, k) ==
  ~EnvIsBottom(Replay(prog.code[m][InsnsOf(m)[k][1]], InsnsOf(m)[k][2]))
SitesOf(m) == IF get_code(m) THEN 1..Len(InsnsOf(m)) ELSE {}
ReturnSites(m) == {k \in SitesOf(m) : is_a_return(InsnAt(m, k).op)}
\* the stores to field f: <<method, site>>
AllSites == UNION {{<<m, k>> : k \in SitesOf(m)} : m \in Methods}
StoreSites(f) ==
  {x \in AllSites :
     /\ InsnAt(x[1], x[2]).op \in {"sput", "iput"}
     /\ InsnAt(x[1], x[2]).ref = f}
\* those outside the class initializer of f's class
OutsideStoreSites(f) ==
  {x \in StoreSites(f) : ~(is_clinit(x[1]) /\ method_class(x[1]) = field_class(f))}

\* the join of a set of abstract values
RECURSIVE JoinSet(_)
JoinSet(S) ==
  IF S = {} THEN Bottom
  ELSE LET v == CHOOSE x \in S : TRUE IN join(v, JoinSet(S \ {v}))

(***************************************************************************)
(* C1  Unknown-field soundness. In every state of a constructed            *)
(* WholeProgramState, also after collect_static_finals and                 *)
(* collect_instance_finals calls, get_field_value is Top for every field   *)
(* outside the known-field set, whatever the field partition holds for it; *)
(* and an analyze_sget / analyze_iget of such a field returns false and    *)
(* leaves the environment as it was.                                       *)
(***************************************************************************)
C1_UnknownFieldSoundness ==
  /\ \A f \in Fields \ m_known_fields : is_top(get_field_value(f))
  /\ (last.op \in {"sget", "iget"} /\ last.insn.ref \in Fields \ m_known_fields)
       => (~last.ret /\ last.env = last.env0)

\* an sget, after a collect_*_finals call, of a field that is not known although its
\* partition entry is a constant
C1_Witness ==
  /\ phase = "built"
  /\ ops > 0
  /\ last.op = "sget"
  /\ last.wps
  /\ last.insn.ref \in Fields \ m_known_fields
  /\ m_field_partition[last.insn.ref].k = "const"
  /\ ~last.ret

(***************************************************************************)
(* C2  Clinit suppression. For a known static field F of a class C that    *)
(* has a class initializer, the walk records one observation per visited   *)
(* store to F outside C.<clinit> and none for the sputs inside it; and     *)
(* when F is stored to only inside C.<clinit>, its field partition value   *)
(* after construction is F's binding at the initializer's exit.            *)
(***************************************************************************)
C2_ClinitSuppression ==
  \A f \in Fields :
    (is_static(f) /\ get_clinit(field_class(f)) # NoMethod /\ f \in m_known_fields)
      => /\ phase = "walk" =>
              Len(fields_value_tmp[f]) =
                Cardinality({x \in OutsideStoreSites(f) : x[2] <= wpc[x[1]]})
         /\ (phase = "built" /\ OutsideStoreSites(f) = {}) =>
              m_field_partition[f] =
                EnvGet(get_exit_state_at(get_clinit(field_class(f))), f)

\* A.<clinit> assigns A.s 1, then MaxConst, and leaves it at MaxConst at its exit;
\* nothing else stores to A.s, and A.s resolves to exactly Constant(MaxConst)
C2_Witness ==
  /\ phase = "built"
  /\ is_clinit("A.m0")
  /\ "A.s" \in m_known_fields
  /\ StoreSites("A.s") = {<<"A.m0", 2>>, <<"A.m0", 4>>}
  /\ ValueAt("A.m0", 2) = Constant(1)
  /\ ValueAt("A.m0", 4) = Constant(MaxConst)
  /\ EnvGet(get_exit_state_at("A.m0"), "A.s") = Constant(MaxConst)
  /\ m_field_partition["A.s"] = Constant(MaxConst)

(***************************************************************************)
(* C3  A method with code in which no return instruction is reachable (it  *)
(* has no return instruction, or every return instruction, return-void     *)
(* included, is in a block whose replayed abstract state is Bottom) has    *)
(* method-partition value Bottom after collect.                            *)
(***************************************************************************)
C3_NoReachableReturnIsBottom ==
  phase = "built" =>
    \A m \in Methods :
      (get_code(m) /\ \A k \in ReturnSites(m) : ~ReachableAt(m, k))
        => is_bottom(m_method_partition[m])

(***************************************************************************)
(* C4  Void-return reachability. A method with code whose every return is  *)
(* a return-void, one of them reachable, has method-partition value Top    *)
(* (not Bottom) after collect.                                             *)
(***************************************************************************)
C4_VoidReturnIsTop ==
  phase = "built" =>
    \A m \in Methods :
      (/\ get_code(m)
       /\ \E k \in ReturnSites(m) : ReachableAt(m, k)
       /\ \A k \in ReturnSites(m) : InsnAt(m, k).op = "return-void")
        => is_top(m_method_partition[m])

\* B.m1 is one reachable block ending in return-void, and its value is Top
C4_Witness ==
  /\ phase = "built"
  /\ ReturnSites("B.m1") = {1}
  /\ InsnAt("B.m1", 1).op = "return-void"
  /\ ReachableAt("B.m1", 1)
  /\ is_top(m_method_partition["B.m1"])

(***************************************************************************)
(* C5  Join order independence under parallel collection. In every         *)
(* interleaving of the workers no appended observation is lost (each       *)
(* entity's list holds one entry per visited site the collection records), *)
(* and the field and method partitions after collect are a function of the *)
(* program alone: each entity's seeded value joined with all of its        *)
(* observations.                                                           *)
(***************************************************************************)
\* the stores the collection records for field f
RecordedStoreSites(f) ==
  IF f \in KnownFieldsOfScope
  THEN {x \in StoreSites(f) :
          ~(/\ InsnAt(x[1], x[2]).op = "sput"
            /\ is_clinit(x[1])
            /\ method_class(x[1]) = field_class(f))}
  ELSE {}
ObservedReturn(m, k) ==
  IF InsnAt(m, k).op = "return-void" THEN Top ELSE ValueAt(m, k)

C5_JoinOrderIndependence ==
  /\ phase = "walk" =>
       /\ \A f \in Fields :
            Len(fields_value_tmp[f]) =
              Cardinality({x \in RecordedStoreSites(f) : x[2] <= wpc[x[1]]})
       /\ \A m \in Methods :
            Len(methods_value_tmp[m]) =
              Cardinality({k \in ReturnSites(m) : k <= wpc[m]})
  /\ phase = "built" =>
       /\ \A f \in Fields :
            m_field_partition[f] =
              join(SeededFieldPartition[f],
                   JoinSet({ValueAt(x[1], x[2]) : x \in RecordedStoreSites(f)}))
       /\ \A m \in Methods :
            m_method_partition[m] =
              JoinSet({ObservedReturn(m, k) : k \in ReturnSites(m)})

\* the walk is over, and the worker of B.m1 appended its observation of A.s (Bottom,
\* from an unreachable block) between the two that the worker of A.m0 appended
C5_Witness ==
  /\ phase = "walk"
  /\ WalkDone
  /\ fields_value_tmp["A.s"] = <<Constant(1), Bottom, Constant(MaxConst)>>

(***************************************************************************)
(* C6  For every known static field F of class C, the field partition      *)
(* value after construction is join(initial, v1, ..., vn): initial is F's  *)
(* encoded default when C has no class initializer and F's binding at the  *)
(* exit of C.<clinit> otherwise, and v1..vn are the values of the sputs to *)
(* F outside C.<clinit>.                                                   *)
(***************************************************************************)
OutsideSputs(f) ==
  {x \in AllSites :
     /\ InsnAt(x[1], x[2]).op = "sput"
     /\ InsnAt(x[1], x[2]).ref = f
     /\ ~(is_clinit(x[1]) /\ method_class(x[1]) = field_class(f))}

InitialStaticValue(f) ==
  IF get_clinit(field_class(f)) = NoMethod THEN prog.encoded[f]
  ELSE EnvGet(prog.clinit_exit[field_class(f)], f)

C6_StaticFieldJoin ==
  phase = "built" =>
    \A f \in m_known_fields :
      is_static(f) =>
        m_field_partition[f] =
          JoinSet({InitialStaticValue(f)}
                    \cup {ValueAt(x[1], x[2]) : x \in OutsideSputs(f)})

\* A has no initializer, A.s has encoded default 0, and the one sput to A.s, in
\* B.m1, writes MaxConst: A.s is exactly join(Constant(0), Constant(MaxConst))
C6_Witness ==
  /\ phase = "built"
  /\ get_clinit("A") = NoMethod
  /\ "A.s" \in m_known_fields
  /\ prog.encoded["A.s"] = Constant(0)
  /\ OutsideSputs("A.s") = {<<"B.m1", 1>>}
  /\ ValueAt("B.m1", 1) = Constant(MaxConst)
  /\ m_field_partition["A.s"] = join(Constant(0), Constant(MaxConst))
  /\ m_field_partition["A.s"] = Interval("GEZ")

C8_BlocklistSupersedes ==
  \A f \in Fields :
    field_class(f) \in prog.field_blocklist
      => /\ f \notin m_known_fields
         /\ fields_value_tmp[f] = <<>>
         /\ is_top(get_field_value(f))

\* A is blocklisted and its static field A.s is final and neither external nor a
\* root; collect_static_finals(A) has run, and A.s is still not known
C8_Witness ==
  /\ "A" \in prog.field_blocklist
  /\ is_final("A.s") /\ ~is_external("A.s") /\ ~root_field("A.s")
  /\ last.op = "collect_static_finals"
  /\ last.cls = "A"
  /\ "A.s" \notin m_known_fields

(***************************************************************************)
(* C9  Without call-graph context, analyze_invoke refines (returns true    *)
(* and binds the result register to the callee's method summary) if and    *)
(* only if the whole-program state is present, the invoke is direct,       *)
(* static or virtual, the callee resolves, and the callee's summary is not *)
(* Top; otherwise it returns false.                                        *)
(***************************************************************************)
C9_InvokeWithoutCallGraph ==
  (phase = "built" /\ last.op \in InvokeOps /\ ~has_call_graph)
    => LET eligible ==
             /\ last.wps
             /\ last.insn.op \in {"invoke-direct", "invoke-static", "invoke-virtual"}
             /\ last.insn.ref # NoMethod
             /\ ~is_top(get_return_value(last.insn.ref))
       IN  /\ last.ret <=> eligible
           /\ last.ret =>
                last.env = EnvSet(last.env0, "RESULT_REGISTER",
                                  get_return_value(last.insn.ref))

\* an invoke-static of B.m1, which returns MaxConst on its one path, has bound the
\* result register to Constant(MaxConst)
C9_Witness ==
  /\ phase = "built"
  /\ ~has_call_graph
  /\ last.insn.op = "invoke-static"
  /\ last.insn.ref = "B.m1"
  /\ ReturnSites("B.m1") = {1}
  /\ ValueAt("B.m1", 1) = Constant(MaxConst)
  /\ last.ret
  /\ last.env["RESULT_REGISTER"] = Constant(MaxConst)

(***************************************************************************)
(* C10  With call-graph context, analyze_invoke returns false and leaves   *)
(* the result register unbound whenever the resolved callee is flagged     *)
(* dynamic, whatever the callee's summary and the call site's return       *)
(* value are; and also when resolution fails after the interface-virtual   *)
(* fallback, or when the call site's return value is Top.                  *)
(***************************************************************************)
\* the callee of a call site under the call-graph path's resolution
ResolvedWithFallback(insn) ==
  IF insn.ref # NoMethod THEN insn.ref
  ELSE IF insn.op = "invoke-virtual" THEN insn.alt
  ELSE NoMethod

C10_InvokeWithCallGraphDeclines ==
  (phase = "built" /\ last.op \in InvokeOps /\ last.wps /\ has_call_graph)
    => LET callee == ResolvedWithFallback(last.insn)
       IN  (\/ callee = NoMethod
            \/ callee \in prog.dynamic
            \/ is_top(prog.cg_return[last.insn.lit]))
             => (~last.ret /\ last.env = last.env0)

\* a call of B.m2, dynamic in the call graph, is declined although both the summary
\* of B.m2 and the call site's return value are constants
C10_Witness ==
  /\ phase = "built"
  /\ has_call_graph
  /\ last.op \in InvokeOps
  /\ last.wps
  /\ ResolvedWithFallback(last.insn) = "B.m2"
  /\ "B.m2" \in prog.dynamic
  /\ get_return_value("B.m2") = Constant(1)
  /\ prog.cg_return[last.insn.lit] = Constant(MaxConst)
  /\ ~last.ret
  /\ last.env = last.env0

(***************************************************************************)
(* C11  Declining leaves the environment untouched. Whenever analyze_sget, *)
(* analyze_iget or analyze_invoke returns false (no whole-program state,   *)
(* unresolved field or method, ineligible invoke kind, dynamic callee, Top *)
(* summary), the environment it was handed is unchanged; and the           *)
(* environment changes only on a call that returns true, and then only in  *)
(* that the result register is set.                                        *)
(***************************************************************************)
C11_DeclineLeavesEnvironment ==
  last.op \in ReadOps
    => /\ ~last.ret => last.env = last.env0
       /\ last.env # last.env0 => last.ret
       /\ last.ret =>
            \E v \in {get_field_value(f) : f \in Fields}
                       \cup {get_return_value(m) : m \in Methods}
                       \cup (IF last.op \in InvokeOps
                             THEN {get_return_value_from_cg(last.insn)} ELSE {}) :
              /\ ~is_top(v)
              /\ last.env = EnvSet(last.env0, "RESULT_REGISTER", v)

\* an sget of a field whose summary is Top was declined with the result register
\* still holding what an earlier instruction left in it
C11_Witness ==
  /\ phase = "built"
  /\ last.op = "sget"
  /\ last.wps
  /\ last.insn.ref = "A.s"
  /\ is_top(get_field_value("A.s"))
  /\ ~last.ret
  /\ last.env0["RESULT_REGISTER"] = Constant(0)
  /\ last.env = last.env0

(***************************************************************************)
(* C12  The class-initializer evaluator writes a field-partition entry for *)
(* every static field of every class: the encoded value when the class has *)
(* no initializer, otherwise the field's binding in the environment at the *)
(* initializer's exit, a field without a binding there being written as    *)
(* Top and not left at the partition's default, Bottom.                    *)
(***************************************************************************)
C12_ClinitWritesEveryStaticField ==
  phase = "walk" =>
    \A cls \in Classes : \A f \in get_sfields(cls) :
      /\ get_clinit(cls) = NoMethod => m_field_partition[f] = prog.encoded[f]
      /\ get_clinit(cls) # NoMethod =>
           /\ m_field_partition[f] = EnvGet(prog.clinit_exit[cls], f)
           /\ (~EnvIsBottom(prog.clinit_exit[cls]) /\ is_top(prog.clinit_exit[cls][f]))
                => is_top(m_field_partition[f])

\* A has an initializer whose exit state is reached and holds no binding for A.s,
\* and the entry of A.s is Top
C12_Witness ==
  /\ phase = "walk"
  /\ get_clinit("A") = "A.m0"
  /\ ~EnvIsBottom(prog.clinit_exit["A"])
  /\ is_top(prog.clinit_exit["A"]["A.s"])
  /\ is_top(m_field_partition["A.s"])

(***************************************************************************)
(* C13  Instance-field seeding. A known instance field holds its seed when *)
(* the walk starts: Bottom if it is in the definitely-assigned set,        *)
(* Constant(0) otherwise. After construction its value is the join of the  *)
(* seed and the values stored to it by every iput of the program.          *)
(***************************************************************************)
IfieldSeed(f) ==
  IF f \in prog.definitely_assigned_ifields THEN Bottom ELSE Constant(0)

IputSites(f) ==
  {x \in AllSites : InsnAt(x[1], x[2]).op = "iput" /\ InsnAt(x[1], x[2]).ref = f}

C13_InstanceFieldSeeding ==
  \A f \in m_known_fields :
    ~is_static(f) =>
      /\ phase = "walk" => m_field_partition[f] = IfieldSeed(f)
      /\ phase = "built" =>
           m_field_partition[f] =
             JoinSet({IfieldSeed(f)} \cup {ValueAt(x[1], x[2]) : x \in IputSites(f)})

\* A.i is definitely assigned and known, its only store writes MaxConst, and it
\* resolves to Constant(MaxConst)
C13_Witness ==
  /\ phase = "built"
  /\ "A.i" \in m_known_fields
  /\ "A.i" \in prog.definitely_assigned_ifields
  /\ IputSites("A.i") = {<<"A.m0", 2>>}
  /\ ValueAt("A.m0", 2) = Constant(MaxConst)
  /\ m_field_partition["A.i"] = Constant(MaxConst)

(***************************************************************************)
(* C14  Field classification is exact. From the classification on (no      *)
(* collect_*_finals call made), a field is in the known-field set if and   *)
(* only if its declaring class is not blocklisted and either it is static  *)
(* and not rooted, or it is not static, not external, not volatile and can *)
(* be deleted.                                                             *)
(***************************************************************************)
C14_FieldClassification ==
  (phase # "new" /\ ops = 0) =>
    \A f \in Fields :
      f \in m_known_fields <=>
        /\ field_class(f) \notin prog.field_blocklist
        /\ \/ is_static(f) /\ ~root_field(f)
           \/ ~is_static(f) /\ ~is_external(f) /\ ~is_volatile(f) /\ can_delete(f)

\* after construction the volatile instance field A.i, otherwise eligible, is not
\* known, and the static field A.s, external, volatile and kept but not rooted, is
C14_Witness ==
  /\ phase = "built"
  /\ "A" \notin prog.field_blocklist
  /\ is_volatile("A.i") /\ ~is_external("A.i") /\ can_delete("A.i")
  /\ "A.i" \notin m_known_fields
  /\ is_volatile("A.s") /\ is_external("A.s") /\ ~can_delete("A.s")
  /\ ~root_field("A.s")
  /\ "A.s" \in m_known_fields

(***************************************************************************)
(* C15  Method classification is exact. After the classification a method  *)
(* is in the known-method set if and only if it is in the supplied         *)
(* non-true-virtual set, is not rooted and has a body, or it is a          *)
(* non-virtual method of the scope with a body; so a rooted method of the  *)
(* non-true-virtual set is known only when it is non-virtual with a body.  *)
(***************************************************************************)
C15_MethodClassification ==
  phase # "new" =>
    /\ \A m \in Methods :
         m \in m_known_methods <=>
           \/ m \in prog.non_true_virtuals /\ m \notin prog.m_root /\ get_code(m)
           \/ m \notin prog.m_virtual /\ get_code(m)
    /\ \A m \in prog.non_true_virtuals :
         m \in prog.m_root =>
           (m \in m_known_methods <=> (m \notin prog.m_virtual /\ get_code(m)))

\* after construction B.m1, rooted, virtual, with a body and in the non-true-virtual
\* set, is not known, and B.m2, the same but not rooted, is
C15_Witness ==
  /\ phase = "built"
  /\ {"B.m1", "B.m2"} \subseteq prog.non_true_virtuals
  /\ {"B.m1", "B.m2"} \subseteq prog.m_virtual
  /\ get_code("B.m1") /\ get_code("B.m2")
  /\ "B.m1" \in prog.m_root /\ "B.m2" \notin prog.m_root
  /\ "B.m1" \notin m_known_methods
  /\ "B.m2" \in m_known_methods

(***************************************************************************)
(* C16  Monotonicity in observations. For every field and every method,    *)
(* the value the reduction gives it is greater than or equal, in the       *)
(* lattice order, to the value the reduction gives when any one of its     *)
(* recorded store or return sites is left out, and it is at most Top.      *)
(***************************************************************************)
\* the observations of an entity without those of its i-th recorded site
Without(values, i) == SubSeq(values, 1, i - 1) \o SubSeq(values, i + 1, Len(values))

C19_ExactlyOneConstructor ==
  [][(last'.op = "collect_instance_finals" /\ ops' = ops + 1) =>
       /\ \A f \in m_known_fields' \ m_known_fields :
            /\ f \in get_ifields(last'.cls)
            /\ prog.ctors[last'.cls] = 1
            /\ last'.cls \notin prog.field_blocklist
       /\ prog.ctors[last'.cls] # 1 =>
            /\ m_known_fields' = m_known_fields
            /\ \A f \in get_ifields(last'.cls) : is_top(m_field_partition'[f])]_vars

(***************************************************************************)
(* What the claims about AppModuleUsagePass speak of: the app modules a    *)
(* method uses, read off the pass's input, and the violations.             *)
(***************************************************************************)
\* a store that is neither the root store nor the method's own store
IsAppModuleFor(method, store) ==
  store # 0 /\ store # m_type_store_map[get_class(method)]

UsedDirectly(method) ==
  {store \in StoreIds :
     /\ IsAppModuleFor(method, store)
     /\ \E i \in DOMAIN app.code[method] : \E t \in app.code[method][i].types :
          t \in AppTypes /\ m_type_store_map[t] = store}

UsedReflectively(method) ==
  {store \in StoreIds :
     /\ IsAppModuleFor(method, store)
     /\ \E i \in DOMAIN app.code[method] :
          /\ ~app.code[method][i].invoke
          /\ app.code[method][i].refl \in AppTypes
          /\ m_type_store_map[app.code[method][i].refl] = store}

UsedModules(method) == UsedDirectly(method) \cup UsedReflectively(method)

Annotated(entrypoint) == app.anno[entrypoint] \cup app.anno[get_class(entrypoint)]

\* the <<entrypoint, module>> pairs where the entrypoint uses the module and neither
\* its annotation nor its class's names it
MethodViolations ==
  {x \in AppMethods \X {get_name(store) : store \in StoreIds} :
     /\ \E store \in UsedModules(x[1]) : get_name(store) = x[2]
     /\ x[2] \notin Annotated(x[1])}

FieldViolations ==
  {x \in {"R.x", "P.y"} \X {get_name(store) : store \in StoreIds} :
     /\ app.field_type[x[1]] \in AppTypes
     /\ get_name(m_type_store_map[app.field_type[x[1]]]) = x[2]
     /\ x[2] # "root"
     /\ x[2] # get_name(m_type_store_map[get_class(x[1])])
     /\ x[2] \notin Annotated(x[1])}

AllViolations == MethodViolations \cup FieldViolations

\* the <<entrypoint, module>> pairs the violations report holds, and how many module
\* names it holds
WrittenViolations ==
  UNION {{<<files.violations[i][1], files.violations[i][j]>> :
            j \in 2..Len(files.violations[i])} : i \in DOMAIN files.violations}

WrittenCount ==
  SumOver([i \in DOMAIN files.violations |-> Len(files.violations[i]) - 1],
          DOMAIN files.violations)

ReportFinished == pc \in {"usages", "counts", "done"}

(***************************************************************************)
(* C17  Violation handling. With crash_with_violations set the pass aborts *)
(* at the first unannotated app-module use it reports: it never gets past  *)
(* generate_report when there is a violation, and when it has aborted the  *)
(* report holds that one violation. With crash_with_violations unset the   *)
(* pass never aborts; once generate_report is over the violations report   *)
(* holds every violation once, each on the line of its entrypoint after    *)
(* the entrypoint's descriptor, and num_violations is the number of        *)
(* <<entrypoint, module>> pairs where the used module is named by neither  *)
(* the entrypoint's nor its class's annotation.                            *)
(***************************************************************************)
C17_ViolationHandling ==
  pc # "idle" =>
    /\ app.crash_with_violations =>
         /\ WrittenCount <= 1
         /\ WrittenCount = 1 <=> pc = "aborted"
         /\ WrittenViolations \subseteq AllViolations
         /\ ReportFinished => AllViolations = {}
    /\ ~app.crash_with_violations =>
         /\ pc # "aborted"
         /\ WrittenViolations \subseteq AllViolations
         /\ ReportFinished =>
              /\ metrics.num_violations = Cardinality(AllViolations)
              /\ WrittenViolations = AllViolations
              /\ WrittenCount = Cardinality(AllViolations)
              /\ \A i, j \in DOMAIN files.violations :
                   files.violations[i][1] = files.violations[j][1] => i = j

\* without crash_with_violations the pass has finished; R.f uses m1 both directly
\* and reflectively and m2 directly, unannotated, and its line holds the two
\* modules once each; a field is a violation as well
C17_Witness ==
  /\ pc = "done"
  /\ ~app.crash_with_violations
  /\ 1 \in UsedDirectly("R.f") \cap UsedReflectively("R.f")
  /\ 2 \in UsedDirectly("R.f")
  /\ \E i \in DOMAIN files.violations :
       /\ files.violations[i][1] = "R.f"
       /\ Len(files.violations[i]) = 3
  /\ FieldViolations # {}
  /\ metrics.num_violations = Cardinality(AllViolations)
  /\ metrics.num_violations >= 3

(***************************************************************************)
(* C18  Usage report. Once output_usages has written the report, a method  *)
(* has a line in it if and only if it uses at least one app module (a      *)
(* store that is neither the root store nor the method's own) directly or  *)
(* reflectively; and on that line every used module appears exactly once,  *)
(* unprefixed if used only directly, prefixed "(r)" if used only           *)
(* reflectively and "(d&r)" if used both ways, and no other module         *)
(* appears.                                                                *)
(***************************************************************************)
\* the prefix the report is to give a module a method uses
PrefixFor(method, store) ==
  IF store \in UsedDirectly(method) /\ store \in UsedReflectively(method) THEN "(d&r)"
  ELSE IF store \in UsedReflectively(method) THEN "(r)"
  ELSE ""

C18_UsageReport ==
  (pc \in {"counts", "done"} /\ app.output_entrypoints_to_modules) =>
    /\ \A method \in AppMethods :
         UsedModules(method) # {} <=>
           \E i \in DOMAIN files.usage : files.usage[i][1] = method
    /\ \A i, j \in DOMAIN files.usage :
         files.usage[i][1] = files.usage[j][1] => i = j
    /\ \A i \in DOMAIN files.usage :
         LET line == files.usage[i]
             method == line[1]
         IN  /\ method \in AppMethods
             /\ \A store \in StoreIds :
                  Cardinality({k \in 2..Len(line) : line[k][2] = get_name(store)}) =
                    IF store \in UsedModules(method) THEN 1 ELSE 0
             /\ \A k \in 2..Len(line) :
                  \E store \in UsedModules(method) :
                    line[k] = <<PrefixFor(method, store), get_name(store)>>

\* the report holds a line for R.f with m1 used both ways and m2 used directly, and
\* a line for P.g with m2 used reflectively
C18_Witness ==
  /\ pc = "done"
  /\ app.output_entrypoints_to_modules
  /\ \E i \in DOMAIN files.usage :
       /\ files.usage[i][1] = "R.f"
       /\ Len(files.usage[i]) = 3
       /\ \E k \in 2..3 : files.usage[i][k] = <<"(d&r)", "m1">>
       /\ \E k \in 2..3 : files.usage[i][k] = <<"", "m2">>
  /\ \E i \in DOMAIN files.usage : files.usage[i] = <<"P.g", <<"(r)", "m2">>>>

====
